---- MODULE Spec2Model ----
(***************************************************************************)
(* AI Story Game: the session registry, the per-session GameState engine   *)
(* and the two POST handlers of the main variant                           *)
(* (src/ai-story-game-main/src/gameState.js served by src/unnamed/part_000)*)
(* as a state machine. Every await of a provider call is a suspension      *)
(* point; the code between two awaits runs atomically (one JS thread).     *)
(***************************************************************************)
EXTENDS Integers, Sequences, FiniteSets, TLC

VARIABLES
  clock,         \* Date.now(), in milliseconds
  falKey,        \* process.env.FAL_KEY is set
  stub,          \* which failure class the provider may show in this run
  gameSessions,  \* the Map sessionId -> engine (index into engines)
  engines,       \* every GameState object constructed so far
  reqs,          \* the requests received so far, in arrival order
  response,      \* the HTTP response the last step wrote, if any
  normalized     \* a call of the choices normalisation on its own: its
                 \* argument and its result

vars ==
  <<clock, falKey, stub, gameSessions, engines, reqs, response, normalized>>

(***************************************************************************)
(* Bounds of the model.                                                    *)
(***************************************************************************)
MaxClock == 2      \* the clock is read at 1..MaxClock
MaxReqs == 3       \* requests received in one run
MaxInFlight == 2   \* requests being handled at the same time
MaxIndex == 3      \* a choiceIndex sent by a client lies in -MaxIndex..MaxIndex
MaxOutputLen == 8  \* characters of a provider output given to the normalisation
MaxArrayLen == 4   \* entries of an array given to the normalisation

(***************************************************************************)
(* JavaScript values. A value is a record [t, s]: its type and, for a      *)
(* string, its characters (for a number, its decimal rendering).           *)
(***************************************************************************)
Str(s) == [t |-> "string", s |-> s]
Undefined == [t |-> "undefined", s |-> ""]
Null == [t |-> "null", s |-> ""]
NumberValue == [t |-> "number", s |-> "42"]

\* ToBoolean of the values above
Truthy(v) ==
  CASE v.t = "undefined" -> FALSE
    [] v.t = "null" -> FALSE
    [] v.t = "string" -> v.s # ""
    [] OTHER -> TRUE

\* A JS number that indexes an array: NaN or an integer.
NaN == [nan |-> TRUE, n |-> 0]
Num(i) == [nan |-> FALSE, n |-> i]

\* the choiceIndex field of a request body: absent, or a number
Missing == [t |-> "undefined", n |-> 0]
ChoiceIndexInputs ==
  {Missing} \cup {[t |-> "number", n |-> i] : i \in (0 - MaxIndex)..MaxIndex}

\* parseInt(choiceIndex, 10)
ParseInt(v) == IF v.t = "undefined" THEN NaN ELSE Num(v.n)

\* a % b of JavaScript: the sign of the result is the sign of the dividend
JsRem(a, b) ==
  IF a.nan THEN NaN
  ELSE IF a.n >= 0 THEN Num(a.n % b) ELSE Num(0 - ((0 - a.n) % b))

\* array[index] of JavaScript: undefined outside 0..length-1 and for NaN
ArrayGet(arr, index) ==
  IF index.nan \/ index.n < 0 \/ index.n >= Len(arr)
  THEN Undefined
  ELSE arr[index.n + 1]

DEFAULT_CHOICES ==
  << Str("Continue exploring"),
     Str("Take a different path"),
     Str("Stop and observe your surroundings") >>

\* substring(0, 100) of the image prompt
PromptTextLength == 100

PlaceholderText == "The adventure continues... (Error generating story text)"

(***************************************************************************)
(* Text of a provider output, as a sequence of one-character strings, and  *)
(* the regular expression /"(.*?)"/g of generateChoices and extractChoices.*)
(***************************************************************************)
Q == "\""
NL == "\n"

RECURSIVE Join(_)
Join(chars) ==
  LET n == Len(chars) IN
  IF n = 0 THEN ""
  ELSE IF n = 1 THEN chars[1]
  ELSE Join(SubSeq(chars, 1, n \div 2)) \o Join(SubSeq(chars, n \div 2 + 1, n))

\* the first position after i holding a quote or a line break, 0 when none
RECURSIVE NextSpecial(_, _)
NextSpecial(chars, i) ==
  IF i >= Len(chars) THEN 0
  ELSE IF chars[i + 1] \in {Q, NL} THEN i + 1
  ELSE NextSpecial(chars, i + 1)

\* output.match(/"(.*?)"/g) scanning from position i: the matches in order,
\* quotes included; <<>> stands for the null of "no match". The dot does
\* not match a line break and the group is lazy: an opening quote matches
\* up to the next quote of its line.
RECURSIVE MatchFrom(_, _)
MatchFrom(chars, i) ==
  IF i > Len(chars) THEN <<>>
  ELSE IF chars[i] # Q THEN MatchFrom(chars, i + 1)
  ELSE LET j == NextSpecial(chars, i) IN
       IF j = 0 \/ chars[j] = NL
       THEN MatchFrom(chars, i + 1)
       ELSE <<SubSeq(chars, i, j)>> \o MatchFrom(chars, j + 1)

MatchQuoted(chars) == MatchFrom(chars, 1)

\* choice.replace(/"/g, '')
StripQuotes(match) == Str(Join(SelectSeq(match, LAMBDA c : c # Q)))

CleanedChoices(matches) ==
  [k \in 1..Len(matches) |-> StripQuotes(matches[k])]

\* the output property of a choices payload: absent, a string, a number
NoOutput == [t |-> "undefined", chars |-> <<>>]
StringOutput(chars) == [t |-> "string", chars |-> chars]
NumberOutput == [t |-> "number", chars |-> <<"4", "2">>]

OutputTruthy(o) ==
  CASE o.t = "undefined" -> FALSE
    [] o.t = "string" -> o.chars # <<>>
    [] OTHER -> TRUE

(***************************************************************************)
(* A choices response: what extractChoices is given, and what the choices  *)
(* provider resolves with. kind is "undefined", "nonobject" (null, a       *)
(* string, a number), "array" (arr) or "object". For extractChoices an     *)
(* object has hasData (a truthy data property) and output = data.output;   *)
(* for the provider result, kind describes result.data and output is       *)
(* result.data.output.                                                     *)
(***************************************************************************)
ArrayResponse(arr) ==
  [kind |-> "array", arr |-> arr, hasData |-> FALSE, output |-> NoOutput]
ObjectResponse(hasData, output) ==
  [kind |-> "object", arr |-> <<>>, hasData |-> hasData, output |-> output]
OtherResponse(kind) ==
  [kind |-> kind, arr |-> <<>>, hasData |-> FALSE, output |-> NoOutput]

\* cleanedChoices padded with defaults or cut to the first three
PadOrTruncate(cleanedChoices) ==
  IF Len(cleanedChoices) < 3
  THEN cleanedChoices \o SubSeq(DEFAULT_CHOICES, 1, 3 - Len(cleanedChoices))
  ELSE SubSeq(cleanedChoices, 1, 3)

\* extractChoices of the main index: a throw inside it (JSON.stringify of
\* undefined has no substring; a number has no match) is caught and gives
\* the defaults
extractChoices(choicesResponse) ==
  CASE choicesResponse.kind = "undefined" -> DEFAULT_CHOICES
    [] choicesResponse.kind = "array" ->
         IF Len(choicesResponse.arr) > 0
         THEN choicesResponse.arr
         ELSE DEFAULT_CHOICES
    [] choicesResponse.kind = "nonobject" -> DEFAULT_CHOICES
    [] OTHER ->
         IF choicesResponse.hasData /\ OutputTruthy(choicesResponse.output)
         THEN IF choicesResponse.output.t # "string"
              THEN DEFAULT_CHOICES
              ELSE LET manualExtract == MatchQuoted(choicesResponse.output.chars)
                   IN  IF manualExtract # <<>>
                       THEN PadOrTruncate(CleanedChoices(manualExtract))
                       ELSE DEFAULT_CHOICES
         ELSE DEFAULT_CHOICES

(***************************************************************************)
(* Provider calls. A call settles with an outcome: rejected with an error  *)
(* or resolved with a result.                                              *)
(***************************************************************************)
NoError == [status |-> 0, message |-> ""]
AuthError == [status |-> 401, message |-> "Unauthorized"]
OtherError == [status |-> 500, message |-> "Network error"]

\* a thrown TypeError, as the catch blocks see it
TypeError == [status |-> 0, message |-> "TypeError"]

Rejected(error, noResult) ==
  [ok |-> FALSE, error |-> error, result |-> noResult]
Resolved(result) ==
  [ok |-> TRUE, error |-> NoError, result |-> result]

\* ---- text: the result of fal.subscribe("fal-ai/any-llm") ----
TextResult(defined, hasData, output, error) ==
  [defined |-> defined, hasData |-> hasData, output |-> output, error |-> error]
NoTextResult == TextResult(FALSE, FALSE, Undefined, "")

\* textResult && textResult.data && textResult.data.output ? output : ""
StoryTextOf(textResult) ==
  IF textResult.defined /\ textResult.hasData /\ Truthy(textResult.output)
  THEN textResult.output
  ELSE Str("")

\* a fallback whose output carries the message of the error
generateStoryTextLeaksError(outcome) ==
  IF outcome.ok
  THEN outcome.result
  ELSE TextResult(TRUE, TRUE, Str(outcome.error.message), outcome.error.message)

\* a catch block that returns nothing usable
generateStoryTextNoFallback(outcome) == outcome.result

\* generateStoryText: the result as it is, or the fallback object on a
\* rejected call
generateStoryText(outcome) ==
  IF outcome.ok
  THEN outcome.result
  ELSE TextResult(TRUE, TRUE, Str(PlaceholderText), outcome.error.message)

\* ---- image: the result of fal.subscribe("fal-ai/flux-pro") ----
ImageEntry(url) == [isNull |-> FALSE, url |-> url]
NullEntry == [isNull |-> TRUE, url |-> Undefined]
ImageData(defined, hasImages, images, error) ==
  [defined |-> defined, hasImages |-> hasImages, images |-> images,
   error |-> error]
NoImageData == ImageData(FALSE, FALSE, <<>>, "")
\* a resolved image call: the result is undefined, or it is {data: ...}
ImageResult(defined, data) == [defined |-> defined, data |-> data]

\* generateStoryImage: result.data, or {images: [], error} when the call
\* rejects or result.data throws
generateStoryImage(outcome) ==
  IF outcome.ok
  THEN IF outcome.result.defined
       THEN outcome.result.data
       ELSE ImageData(TRUE, TRUE, <<>>, TypeError.message)
  ELSE ImageData(TRUE, TRUE, <<>>, outcome.error.message)

\* the handlers' imageUrl: images[0].url throws when images[0] is null
ImageUrlThrows(image) ==
  image.defined /\ image.hasImages /\ Len(image.images) > 0
  /\ image.images[1].isNull
ImageUrlOf(image) ==
  IF image.defined /\ image.hasImages /\ Len(image.images) > 0
  THEN image.images[1].url
  ELSE Null

\* ---- choices: generateChoices ----
\* generateChoices returns the defaults without a provider call when the
\* scene text is not a string
NeedsChoicesCall(sceneText) == sceneText.t = "string"

generateChoices(outcome) ==
  IF ~outcome.ok THEN DEFAULT_CHOICES
  ELSE LET result == outcome.result IN
    CASE result.kind = "undefined" -> DEFAULT_CHOICES
      [] result.kind = "array" ->
           IF Len(result.arr) > 0 THEN result.arr ELSE DEFAULT_CHOICES
      [] result.kind = "nonobject" -> DEFAULT_CHOICES
      [] OTHER ->
           IF OutputTruthy(result.output)
           THEN IF result.output.t # "string"
                THEN DEFAULT_CHOICES
                ELSE LET manualExtract == MatchQuoted(result.output.chars)
                     IN  IF manualExtract # <<>>
                         THEN CleanedChoices(manualExtract)
                         ELSE DEFAULT_CHOICES
           ELSE DEFAULT_CHOICES

\* ---- speech: generateSpeech ----
SpeechResult(kind, url) == [kind |-> kind, url |-> url]
NoSpeechResult == SpeechResult("undefined", Undefined)

\* text.substring throws before the call when text is not a string
NeedsSpeechCall(text) == text.t = "string"

generateSpeech(outcome) ==
  IF ~outcome.ok THEN Null
  ELSE IF outcome.result.kind = "audio" /\ Truthy(outcome.result.url)
       THEN outcome.result.url
       ELSE Null

(***************************************************************************)
(* What the provider may answer. The stub of a run is well-formed, or it   *)
(* allows one failure class beside the well-formed answers: rejections     *)
(* (with a 401 or with another error) of any of the four calls, or         *)
(* malformed results of one capability. Requests overlap in the runs with  *)
(* the well-formed stub; with a failing stub they are handled one after    *)
(* the other.                                                              *)
(***************************************************************************)
StubModes ==
  {"wellFormed", "rejects401", "rejects", "text", "image", "choices", "speech"}

StubError == IF stub = "rejects401" THEN AuthError ELSE OtherError
Rejects == stub \in {"rejects401", "rejects"}

\* the well-formed answers; the text and the image differ from call to call
TextOf(r) == "Story " \o ToString(r)
\* a text of more than 100 characters
LongChars == [k \in 1..(PromptTextLength + 2) |-> IF k <= PromptTextLength THEN "x" ELSE "y"]
LongText == Join(LongChars)
WellFormedText(r) == TextResult(TRUE, TRUE, Str(TextOf(r)), "")
WellFormedImage(r) ==
  ImageResult(TRUE,
    ImageData(TRUE, TRUE, <<ImageEntry(Str("image " \o ToString(r)))>>, ""))
ThreeQuoted ==
  <<"[", Q, "A", Q, ",", Q, "B", Q, ",", Q, "C", Q, "]">>
WellFormedChoices == ObjectResponse(FALSE, StringOutput(ThreeQuoted))
WellFormedSpeech(r) == SpeechResult("audio", Str("audio " \o ToString(r)))

TextOutcomes(r) ==
  {Resolved(WellFormedText(r))}
  \cup (IF Rejects THEN {Rejected(StubError, NoTextResult)} ELSE {})
  \cup (IF stub = "text"
        THEN {Resolved(TextResult(TRUE, TRUE, Str(LongText), "")),
              Resolved(TextResult(TRUE, FALSE, Undefined, "")),
              Resolved(TextResult(TRUE, TRUE, Undefined, "")),
              Resolved(TextResult(TRUE, TRUE, NumberValue, ""))}
        ELSE {})

ImageOutcomes(r) ==
  {Resolved(WellFormedImage(r))}
  \cup (IF Rejects
        THEN {Rejected(StubError, ImageResult(FALSE, NoImageData))}
        ELSE {})
  \cup (IF stub = "image"
        THEN {Resolved(ImageResult(FALSE, NoImageData)),
              Resolved(ImageResult(TRUE, NoImageData)),
              Resolved(ImageResult(TRUE, ImageData(TRUE, TRUE, <<>>, ""))),
              Resolved(ImageResult(TRUE,
                         ImageData(TRUE, TRUE, <<NullEntry>>, "")))}
        ELSE {})

\* outputs of the choices provider with 0, 1, 2, 4 quoted substrings, an
\* empty quoted substring, a quote left open at a line break
ChoiceOutputs ==
  { <<"n", "o">>,
    <<Q, "A", Q>>,
    <<Q, "A", Q, " ", Q, "B", Q>>,
    <<Q, "A", Q, Q, "B", Q, Q, "C", Q, Q, "D", Q>>,
    <<Q, Q, Q, "B", Q, Q, "C", Q>>,
    <<Q, "A", NL, Q, "B", Q>> }

ChoicesOutcomes ==
  {Resolved(WellFormedChoices)}
  \cup (IF Rejects THEN {Rejected(StubError, OtherResponse("undefined"))}
        ELSE {})
  \cup (IF stub = "choices"
        THEN {Resolved(OtherResponse("undefined")),
              Resolved(OtherResponse("nonobject")),
              Resolved(ArrayResponse(<<>>)),
              Resolved(ArrayResponse(<<Str("A"), Str("B"), Str("C"), Str("D")>>)),
              Resolved(ObjectResponse(FALSE, NoOutput)),
              Resolved(ObjectResponse(FALSE, NumberOutput))}
             \cup {Resolved(ObjectResponse(FALSE, StringOutput(o))) :
                     o \in ChoiceOutputs}
        ELSE {})

SpeechOutcomes(r) ==
  {Resolved(WellFormedSpeech(r))}
  \cup (IF Rejects THEN {Rejected(StubError, NoSpeechResult)} ELSE {})
  \cup (IF stub = "speech"
        THEN {Resolved(SpeechResult("undefined", Undefined)),
              Resolved(SpeechResult("noData", Undefined)),
              Resolved(SpeechResult("noAudio", Undefined)),
              Resolved(SpeechResult("audio", Undefined))}
        ELSE {})

\* a resolved call whose result has not the shape the code expects
TextMalformed(outcome) ==
  outcome.ok /\ ~(outcome.result.defined /\ outcome.result.hasData
                  /\ outcome.result.output.t = "string"
                  /\ outcome.result.output.s # "")
ImageMalformed(outcome) ==
  outcome.ok /\ ~(outcome.result.defined /\ outcome.result.data.defined
                  /\ outcome.result.data.hasImages
                  /\ Len(outcome.result.data.images) > 0
                  /\ ~outcome.result.data.images[1].isNull)
ChoicesMalformed(outcome) ==
  outcome.ok /\ ~(outcome.result.kind = "object"
                  /\ outcome.result.output.t = "string"
                  /\ LET cleaned ==
                           CleanedChoices(MatchQuoted(outcome.result.output.chars))
                     IN  /\ Len(cleaned) = 3
                         /\ \A k \in 1..3 : cleaned[k].s # "")
SpeechMalformed(outcome) ==
  outcome.ok /\ ~(outcome.result.kind = "audio" /\ Truthy(outcome.result.url))

(***************************************************************************)
(* Scenes, engines, requests, responses.                                   *)
(***************************************************************************)
\* currentScene = {text, image, choices}: the raw results. gen is the
\* identity of the objects the scene holds: the request whose calls made
\* them (0: the scene is null).
Scene(gen, text, image, choices) ==
  [gen |-> gen, text |-> text, image |-> image, choices |-> choices]
NullScene == Scene(0, NoTextResult, NoImageData, <<>>)

\* new GameState(): returned counts the makeChoice calls that returned
GameState == [currentScene |-> NullScene, history |-> <<>>, returned |-> 0]

\* a push that skips a scene equal to the last entry
PushHistoryDeduped(history, currentScene) ==
  IF history # <<>> /\ history[Len(history)].gen = currentScene.gen
  THEN history
  ELSE Append(history, currentScene)

\* a history that keeps the last scene only
PushHistoryKeepLast(history, currentScene) == <<currentScene>>

\* this.history.push({...this.currentScene})
PushHistory(history, currentScene) == Append(history, currentScene)

InitialContext ==
  "You find yourself in a mysterious forest at dusk. The trees tower above you, their branches swaying gently in the breeze."

\* a request whose image call is issued together with its text call
RequestAllAtOnce(kind, pc, sessionId, game, choiceIndex, selectedChoice, context) ==
  [kind |-> kind, pc |-> pc, sessionId |-> sessionId, game |-> game,
   choiceIndex |-> choiceIndex, selectedChoice |-> selectedChoice,
   currentContext |-> context,
   before |-> GameState, shared |-> FALSE,
   textResult |-> NoTextResult, imagePrompt |-> Undefined,
   imageResult |-> NoImageData, choicesResult |-> <<>>,
   calls |-> <<"text", "image">>, settled |-> {}, rejected |-> {},
   malformed |-> {}]

\* a request being handled: its place (the provider call it awaits) and the
\* locals of its handler and of startNewGame / makeChoice. Kept beside them:
\* the calls issued and how they settled, the engine as makeChoice found it
\* (before), whether another makeChoice ran on the engine meanwhile (shared)
Request(kind, pc, sessionId, game, choiceIndex, selectedChoice, context) ==
  [kind |-> kind, pc |-> pc, sessionId |-> sessionId, game |-> game,
   choiceIndex |-> choiceIndex, selectedChoice |-> selectedChoice,
   currentContext |-> context,
   before |-> GameState, shared |-> FALSE,
   textResult |-> NoTextResult, imagePrompt |-> Undefined,
   imageResult |-> NoImageData, choicesResult |-> <<>>,
   calls |-> <<"text">>, settled |-> {}, rejected |-> {}, malformed |-> {}]

\* a handler that goes on awaiting after it has answered
AnsweredStillAwaiting(kind) ==
  [kind |-> kind, pc |-> "speech", sessionId |-> 0, game |-> 0,
   choiceIndex |-> Missing, selectedChoice |-> Undefined,
   currentContext |-> Undefined,
   before |-> GameState, shared |-> FALSE,
   textResult |-> NoTextResult, imagePrompt |-> Undefined,
   imageResult |-> NoImageData, choicesResult |-> <<>>,
   calls |-> <<>>, settled |-> {}, rejected |-> {}, malformed |-> {}]

\* a request that was answered keeps no local
Answered(kind) ==
  [kind |-> kind, pc |-> "done", sessionId |-> 0, game |-> 0,
   choiceIndex |-> Missing, selectedChoice |-> Undefined,
   currentContext |-> Undefined,
   before |-> GameState, shared |-> FALSE,
   textResult |-> NoTextResult, imagePrompt |-> Undefined,
   imageResult |-> NoImageData, choicesResult |-> <<>>,
   calls |-> <<>>, settled |-> {}, rejected |-> {}, malformed |-> {}]

InFlight == {r \in 1..Len(reqs) : reqs[r].pc # "done"}

\* the response written by res.json / res.status(..).json, with the
\* request it answers and what that request saw of the provider
Response(r, rq, status, error, text, imageUrl, audioUrl, choices) ==
  [req |-> r, kind |-> rq.kind, status |-> status, error |-> error,
   sessionId |-> rq.sessionId, text |-> text, imageUrl |-> imageUrl,
   audioUrl |-> audioUrl, choices |-> choices,
   game |-> rq.game, calls |-> rq.calls, settled |-> rq.settled,
   rejected |-> rq.rejected, malformed |-> rq.malformed]

NoRequest ==
  [kind |-> "none", sessionId |-> 0, game |-> 0, calls |-> <<>>,
   settled |-> {}, rejected |-> {}, malformed |-> {}]
NoResponse == Response(0, NoRequest, 0, "", Undefined, Undefined, Undefined, <<>>)

ErrorResponse(r, rq, status, error) ==
  Response(r, rq, status, error, Undefined, Undefined, Undefined, <<>>)

\* the catch blocks of the two handlers
StartFailed == "Failed to start game"
ChoiceFailed == "Failed to process choice"
\* a catch block that answers with the message of the exception
FailedMessageOfError(kind) == TypeError.message

FailedMessage(kind) == IF kind = "start" THEN StartFailed ELSE ChoiceFailed
SessionNotFound == "Game session not found"

\* a registry that holds one session only: a set drops every other entry
MapSetForgets(map, key, value) == [k \in {key} |-> value]

\* gameSessions.set(sessionId, game)
MapSet(map, key, value) ==
  [k \in (DOMAIN map) \cup {key} |-> IF k = key THEN value ELSE map[k]]

\* a call that is made again when it was rejected
SettledWithRetry(rq, capability, outcome, malformed) ==
  [rq EXCEPT !.settled = @ \cup {capability},
             !.calls = IF outcome.ok THEN @ ELSE Append(@, capability),
             !.rejected = IF outcome.ok THEN @ ELSE @ \cup {capability},
             !.malformed = IF malformed THEN @ \cup {capability} ELSE @]

\* what a settled call adds to the request's record of the provider: the
\* await returns (or the catch of the generate function runs) once, and the
\* code goes on to its next statement
Settled(rq, capability, outcome, malformed) ==
  [rq EXCEPT !.settled = @ \cup {capability},
             !.rejected = IF outcome.ok THEN @ ELSE @ \cup {capability},
             !.malformed = IF malformed THEN @ \cup {capability} ELSE @]

\* no call of the normalisation on its own was made
NoCall ==
  [fn |-> "none", input |-> OtherResponse("undefined"), result |-> <<>>]

Init ==
  /\ clock = 1
  /\ falKey \in BOOLEAN
  /\ stub \in StubModes
  /\ gameSessions = [k \in {} |-> 0]
  /\ engines = <<>>
  /\ reqs = <<>>
  /\ response = NoResponse
  /\ normalized = NoCall

\* time passes
Tick ==
  /\ clock < MaxClock
  /\ clock' = clock + 1
  /\ response' = NoResponse
  /\ UNCHANGED <<normalized, falKey, stub, gameSessions, engines, reqs>>

CanReceive ==
  /\ Len(reqs) < MaxReqs
  /\ Cardinality(InFlight) < (IF stub = "wellFormed" THEN MaxInFlight ELSE 1)

(***************************************************************************)
(* The end of a handler: imageUrl, choices, res.json; an exception goes to *)
(* the handler's catch, which answers 500.                                 *)
(***************************************************************************)
SendScene(r, rq, audioUrl) ==
  /\ reqs' = [reqs EXCEPT ![r] = Answered(rq.kind)]
  /\ response' =
       IF ImageUrlThrows(rq.imageResult)
       THEN ErrorResponse(r, rq, 500, FailedMessage(rq.kind))
       ELSE Response(r, rq, 200, "", StoryTextOf(rq.textResult),
                     ImageUrlOf(rq.imageResult), audioUrl,
                     extractChoices(ArrayResponse(rq.choicesResult)))

\* startNewGame / makeChoice store the scene and return it; the start
\* handler registers the engine; then generateSpeech(storyText)
SceneReturned(r, rq0, choicesResult) ==
  LET rq == [rq0 EXCEPT !.choicesResult = choicesResult]
      scene == Scene(r, rq.textResult, rq.imageResult, choicesResult)
      storyText == StoryTextOf(rq.textResult)
  IN  /\ engines' =
           [engines EXCEPT
              ![rq.game] =
                 [@ EXCEPT !.currentScene = scene,
                           !.returned =
                              IF rq.kind = "choice" THEN @ + 1 ELSE @]]
      /\ gameSessions' =
           IF rq.kind = "start"
           THEN MapSet(gameSessions, rq.sessionId, rq.game)
           ELSE gameSessions
      /\ IF NeedsSpeechCall(storyText)
         THEN /\ reqs' = [reqs EXCEPT
                            ![r] = [rq EXCEPT !.pc = "speech",
                                              !.calls = Append(@, "speech")]]
              /\ response' = NoResponse
         ELSE SendScene(r, rq, Null)

\* after the image: storyText, then generateChoices(storyText)
ImageReturned(r, rq) ==
  IF NeedsChoicesCall(StoryTextOf(rq.textResult))
  THEN /\ reqs' = [reqs EXCEPT
                     ![r] = [rq EXCEPT !.pc = "choices",
                                       !.calls = Append(@, "choices")]]
       /\ response' = NoResponse
  /\ UNCHANGED <<gameSessions, engines>>
  ELSE SceneReturned(r, rq, DEFAULT_CHOICES)

(***************************************************************************)
(* POST /api/game/start, up to its first await: the session id, the engine,*)
(* startNewGame up to the text call.                                       *)
(***************************************************************************)
\* configureFalClient throws when FAL_KEY is not set
ConfigureThrows == ~falKey

\* a start handler that registers its engine before startNewGame has run
PostStartRegistersFirst ==
  /\ CanReceive
  /\ LET r == Len(reqs) + 1
         sessionId == clock
     IN  IF ConfigureThrows
         THEN /\ reqs' = Append(reqs, Answered("start"))
              /\ response' =
                   ErrorResponse(r, [Answered("start") EXCEPT
                                       !.sessionId = sessionId],
                                 500, StartFailed)
              /\ UNCHANGED <<gameSessions, engines>>
         ELSE /\ engines' = Append(engines, GameState)
              /\ reqs' = Append(reqs,
                   Request("start", "text", sessionId, Len(engines) + 1,
                           Missing, Str("Game start"), Str(InitialContext)))
              /\ response' = NoResponse
              /\ gameSessions' =
                   MapSet(gameSessions, sessionId, Len(engines) + 1)
  /\ UNCHANGED <<normalized, clock, falKey, stub>>

PostStart ==
  /\ CanReceive
  /\ LET r == Len(reqs) + 1
         sessionId == clock
     IN  IF ConfigureThrows
         THEN /\ reqs' = Append(reqs, Answered("start"))
              /\ response' =
                   ErrorResponse(r, [Answered("start") EXCEPT
                                       !.sessionId = sessionId],
                                 500, StartFailed)
              /\ UNCHANGED <<gameSessions, engines>>
         ELSE /\ engines' = Append(engines, GameState)
              /\ reqs' = Append(reqs,
                   Request("start", "text", sessionId, Len(engines) + 1,
                           Missing, Str("Game start"), Str(InitialContext)))
              /\ response' = NoResponse
              /\ UNCHANGED gameSessions
  /\ UNCHANGED <<normalized, clock, falKey, stub>>

(***************************************************************************)
(* POST /api/game/choice, up to its first await: the lookup, then          *)
(* makeChoice up to the text call.                                         *)
(***************************************************************************)
\* the selected choice of makeChoice (currentScene.choices is an array in
\* every scene startNewGame and makeChoice store)
SelectedChoice(choices, choiceIndex) ==
  IF Truthy(ArrayGet(choices, choiceIndex))
  THEN ArrayGet(choices, choiceIndex)
  ELSE ArrayGet(DEFAULT_CHOICES, JsRem(choiceIndex, Len(DEFAULT_CHOICES)))

\* gameSessions.get(sessionId) finds an engine
Has(map, sessionId) == sessionId \in DOMAIN map

\* a lookup that ignores the key
MapGetAny(map, key) == map[CHOOSE k \in DOMAIN map : \A j \in DOMAIN map : k <= j]

\* gameSessions.get(sessionId), for a key the map holds
MapGet(map, key) == map[key]

\* a wrong status for an unknown session
NotFoundAs500(r, sessionId) ==
  ErrorResponse(r, [Answered("choice") EXCEPT !.sessionId = sessionId],
                500, ChoiceFailed)

\* return res.status(404).json({ error: "Game session not found" })
NotFound(r, sessionId) ==
  ErrorResponse(r, [Answered("choice") EXCEPT !.sessionId = sessionId],
                404, SessionNotFound)

\* makeChoice from the push to its first await: the entry pushed, the
\* selected choice, the context. On a null currentScene {...null} is pushed
\* and reading null.choices throws a TypeError.
makeChoice(engine, choiceIndex) ==
  IF engine.currentScene.gen = 0
  THEN [thrown |-> TRUE, error |-> TypeError,
        history |-> PushHistory(engine.history, NullScene),
        selectedChoice |-> Undefined, currentContext |-> Undefined]
  ELSE [thrown |-> FALSE, error |-> NoError,
        history |-> PushHistory(engine.history, engine.currentScene),
        selectedChoice |->
          SelectedChoice(engine.currentScene.choices, choiceIndex),
        currentContext |-> StoryTextOf(engine.currentScene.text)]

PostChoice(sessionId, choiceIndex) ==
  /\ CanReceive
  /\ LET r == Len(reqs) + 1 IN
     IF ~Has(gameSessions, sessionId)
     THEN /\ reqs' = Append(reqs, Answered("choice"))
          /\ response' = NotFound(r, sessionId)
          /\ UNCHANGED <<gameSessions, engines>>
     ELSE LET game == MapGet(gameSessions, sessionId)
              engine == engines[game]
              begun == makeChoice(engine, ParseInt(choiceIndex))
              sharing == {q \in InFlight : reqs[q].kind = "choice"
                                           /\ reqs[q].game = game}
              rq == [Request("choice", "text", sessionId, game, choiceIndex,
                             begun.selectedChoice, begun.currentContext)
                       EXCEPT !.before = engine, !.shared = sharing # {}]
          IN  IF ConfigureThrows
              THEN /\ reqs' = Append(reqs, Answered("choice"))
                   /\ response' =
                        ErrorResponse(r, [Answered("choice") EXCEPT
                                            !.sessionId = sessionId,
                                            !.game = game],
                                      500, ChoiceFailed)
                   /\ UNCHANGED <<gameSessions, engines>>
              ELSE IF begun.thrown
              THEN /\ engines' = [engines EXCEPT ![game].history = begun.history]
                   /\ reqs' = Append(reqs, Answered("choice"))
                   /\ response' =
                        ErrorResponse(r, [Answered("choice") EXCEPT
                                            !.sessionId = sessionId,
                                            !.game = game],
                                      500, ChoiceFailed)
                   /\ UNCHANGED gameSessions
              ELSE /\ engines' = [engines EXCEPT ![game].history = begun.history]
                   /\ reqs' = Append(
                        [q \in 1..Len(reqs) |->
                           IF q \in sharing
                           THEN [reqs[q] EXCEPT !.shared = TRUE]
                           ELSE reqs[q]],
                        rq)
                   /\ response' = NoResponse
              /\ UNCHANGED gameSessions
  /\ UNCHANGED <<normalized, clock, falKey, stub>>

(***************************************************************************)
(* The continuations: one per awaited provider call.                       *)
(***************************************************************************)
\* textResult.data.output.substring(0, 100) of makeChoice throws when the
\* output is truthy and not a string
SubstringThrows(textResult) ==
  /\ textResult.defined /\ textResult.hasData
  /\ Truthy(textResult.output)
  /\ textResult.output.t # "string"

\* String(value), as the + of a string concatenation applies it
ToJsString(value) ==
  CASE value.t = "undefined" -> "undefined"
    [] value.t = "null" -> "null"
    [] OTHER -> value.s

\* s.substring(0, n); the characters of a text longer than n are those of
\* the long text of the stub
Substring(s, n) ==
  IF Len(s) <= n THEN s
  ELSE Join(SubSeq(CHOOSE chars \in {LongChars} : Join(chars) = s, 1, n))

\* let imagePrompt = selectedChoice; if (textResult && textResult.data &&
\* textResult.data.output) imagePrompt += " - " + output.substring(0, 100)
imagePrompt(selectedChoice, textResult) ==
  IF textResult.defined /\ textResult.hasData /\ Truthy(textResult.output)
  THEN Str(ToJsString(selectedChoice) \o " - "
           \o Substring(textResult.output.s, PromptTextLength))
  ELSE selectedChoice

\* generateStoryImage(prompt)
IssueImage(r, rq, prompt) ==
  /\ reqs' = [reqs EXCEPT ![r] = [rq EXCEPT !.pc = "image",
                                            !.imagePrompt = prompt,
                                            !.calls = Append(@, "image")]]
  /\ response' = NoResponse
  /\ UNCHANGED <<gameSessions, engines>>

\* startNewGame after generateStoryText: the image call, with
\* initialContext as its prompt
StartText(r) ==
  /\ reqs[r].kind = "start" /\ reqs[r].pc = "text"
  /\ \E outcome \in TextOutcomes(r) :
       IssueImage(r, Settled([reqs[r] EXCEPT
                                !.textResult = generateStoryText(outcome)],
                             "text", outcome, TextMalformed(outcome)),
                  reqs[r].currentContext)
  /\ UNCHANGED <<normalized, clock, falKey, stub>>

\* makeChoice after generateStoryText: the image prompt, the image call
ChoiceText(r) ==
  /\ reqs[r].kind = "choice" /\ reqs[r].pc = "text"
  /\ \E outcome \in TextOutcomes(r) :
       LET rq == Settled([reqs[r] EXCEPT
                            !.textResult = generateStoryText(outcome)],
                         "text", outcome, TextMalformed(outcome))
       IN  IF SubstringThrows(rq.textResult)
           THEN /\ reqs' = [reqs EXCEPT ![r] = Answered("choice")]
                /\ response' = ErrorResponse(r, rq, 500, ChoiceFailed)
                /\ UNCHANGED <<gameSessions, engines>>
           ELSE IssueImage(r, rq,
                           imagePrompt(rq.selectedChoice, rq.textResult))
  /\ UNCHANGED <<normalized, clock, falKey, stub>>

\* after generateStoryImage: generateChoices
ImageSettles(r, kind) ==
  /\ reqs[r].kind = kind /\ reqs[r].pc = "image"
  /\ \E outcome \in ImageOutcomes(r) :
       ImageReturned(r, Settled([reqs[r] EXCEPT
                                   !.imageResult = generateStoryImage(outcome)],
                                "image", outcome, ImageMalformed(outcome)))
  /\ UNCHANGED <<normalized, clock, falKey, stub>>

StartImage(r) == ImageSettles(r, "start")
ChoiceImage(r) == ImageSettles(r, "choice")

\* after generateChoices: the scene is stored and returned to the handler
ChoicesSettle(r, kind) ==
  /\ reqs[r].kind = kind /\ reqs[r].pc = "choices"
  /\ \E outcome \in ChoicesOutcomes :
       SceneReturned(r, Settled(reqs[r], "choices", outcome,
                                ChoicesMalformed(outcome)),
                     generateChoices(outcome))
  /\ UNCHANGED <<normalized, clock, falKey, stub>>

StartChoices(r) == ChoicesSettle(r, "start")
ChoiceChoices(r) == ChoicesSettle(r, "choice")

\* after generateSpeech: the response
SpeechSettles(r, kind) ==
  /\ reqs[r].kind = kind /\ reqs[r].pc = "speech"
  /\ \E outcome \in SpeechOutcomes(r) :
       SendScene(r, Settled(reqs[r], "speech", outcome,
                            SpeechMalformed(outcome)),
                 generateSpeech(outcome))
  /\ UNCHANGED <<normalized, clock, falKey, stub, gameSessions, engines>>

StartSpeech(r) == SpeechSettles(r, "start")
ChoiceSpeech(r) == SpeechSettles(r, "choice")

Next ==
  \/ Tick
  \/ PostStart
  \/ \E sessionId \in 0..MaxClock, choiceIndex \in ChoiceIndexInputs :
       PostChoice(sessionId, choiceIndex)
  \/ \E r \in InFlight : StartText(r)
  \/ \E r \in InFlight : StartImage(r)
  \/ \E r \in InFlight : StartChoices(r)
  \/ \E r \in InFlight : StartSpeech(r)
  \/ \E r \in InFlight : ChoiceText(r)
  \/ \E r \in InFlight : ChoiceImage(r)
  \/ \E r \in InFlight : ChoiceChoices(r)
  \/ \E r \in InFlight : ChoiceSpeech(r)

Spec == Init /\ [][Next]_vars

(***************************************************************************)
(* The server when every provider call settles: the call a request awaits  *)
(* resolves or rejects, and the event loop then runs its continuation.     *)
(***************************************************************************)
\* the text, image or speech call that request r awaits settles
CallSettles(r) ==
  /\ r \in InFlight
  /\ \/ StartText(r) \/ StartImage(r) \/ StartSpeech(r)
     \/ ChoiceText(r) \/ ChoiceImage(r) \/ ChoiceSpeech(r)

\* the choices call that request r awaits settles
AwaitsChoices(r) == r \in InFlight /\ reqs[r].pc = "choices"
ChoicesCallSettles(r) ==
  /\ AwaitsChoices(r)
  /\ StartChoices(r) \/ ChoiceChoices(r)

\* Weak fairness of both actions, for every request. For the choices call
\* it is written with the enabling condition of the action, which is
\* AwaitsChoices(r): the call has an outcome in every state, and TLC need
\* not evaluate the regular expression to find the action enabled.
SpecLive ==
  Spec /\ \A r \in 1..MaxReqs :
            /\ WF_vars(CallSettles(r))
            /\ \/ []<>(~AwaitsChoices(r))
               \/ []<><<ChoicesCallSettles(r)>>_vars

(***************************************************************************)
(* The choices normalisation on its own: extractChoices applied to a       *)
(* response, and the path of a provider output through generateChoices and *)
(* extractChoices, one call per behaviour, for every input of bounded size.*)
(***************************************************************************)
\* the characters of the bounded outputs: a quote, a letter, a line break
OutputChars == {Q, "a", NL}
Outputs == UNION {[1..n -> OutputChars] : n \in 0..MaxOutputLen}

\* JSON.stringify of a string: quotes and backslashes are escaped
BS == "\\"
RECURSIVE JsonEscape(_)
JsonEscape(chars) ==
  IF chars = <<>> THEN <<>>
  ELSE (IF Head(chars) \in {Q, BS} THEN <<BS, Head(chars)>>
        ELSE <<Head(chars)>>) \o JsonEscape(Tail(chars))
JsonString(chars) == <<Q>> \o JsonEscape(chars) \o <<Q>>

\* a JSON array of three strings, and the fenced block that holds it
JsonArray(strings) ==
  <<"[">> \o JsonString(strings[1]) \o <<",">> \o JsonString(strings[2])
          \o <<",">> \o JsonString(strings[3]) \o <<"]">>
\* the three backquotes of a fence; the backquote is written ~ here
Fence == <<"~", "~", "~">>
Fenced(chars) == Fence \o <<"j", "s", "o", "n", NL>> \o chars \o <<NL>> \o Fence

\* the strings of the fenced arrays: plain ones, one holding double quotes,
\* one holding the delimiter of the fence
ChoiceStrings ==
  { <<"A">>, <<"B">>, <<"C">>, <<"s", Q, "h", Q>>, <<"x">> \o Fence }
Triples ==
  {t \in [1..3 -> ChoiceStrings] : t[1] # t[2] /\ t[1] # t[3] /\ t[2] # t[3]}
FencedOutputs == {Fenced(JsonArray(t)) : t \in Triples}

\* the entries of the arrays: a string, the empty string, a number
ArrayEntries == {Str("A"), Str(""), NumberValue}
Arrays == UNION {[1..n -> ArrayEntries] : n \in 0..MaxArrayLen}

\* what extractChoices may be given
ExtractInputs ==
  {OtherResponse("undefined"), OtherResponse("nonobject")}
  \cup {ArrayResponse(arr) : arr \in Arrays}
  \cup {ObjectResponse(hasData, NoOutput) : hasData \in BOOLEAN}
  \cup {ObjectResponse(TRUE, NumberOutput)}
  \cup {ObjectResponse(TRUE, StringOutput(o)) : o \in Outputs \cup FencedOutputs}

\* extractChoices(choicesResponse)
ExtractChoices(choicesResponse) ==
  /\ normalized = NoCall
  /\ normalized' = [fn |-> "extractChoices", input |-> choicesResponse,
                    result |-> extractChoices(choicesResponse)]
  /\ UNCHANGED <<clock, falKey, stub, gameSessions, engines, reqs, response>>

\* the path of the main variant: the choices call resolves with this output,
\* generateChoices extracts, the handler gives the array to extractChoices
NormalizeOutput(output) ==
  /\ normalized = NoCall
  /\ LET result == ObjectResponse(FALSE, StringOutput(output))
     IN  normalized' =
           [fn |-> "generateChoices", input |-> result,
            result |-> extractChoices(
                         ArrayResponse(generateChoices(Resolved(result))))]
  /\ UNCHANGED <<clock, falKey, stub, gameSessions, engines, reqs, response>>

(***************************************************************************)
(* The text normalisation of the copy variant: extractText and the values  *)
(* it inspects. A value is undefined, null, a number, a string (its        *)
(* characters, or a fixed sentence of the code written s) or an object     *)
(* (its fields).                                                           *)
(***************************************************************************)
NullOutput == [t |-> "null", chars |-> <<>>]
ObjectValue(fields) == [t |-> "object", chars |-> <<>>, fields |-> fields]
EmptyObject == ObjectValue([k \in {} |-> NoOutput])
OneField(name, value) == ObjectValue([k \in {name} |-> value])

\* a sentence written in the code (never valid JSON)
IsSentence(value) == "s" \in DOMAIN value

\* value.name, for a value that is neither null nor undefined
Field(value, name) ==
  IF value.t = "object" /\ name \in DOMAIN value.fields
  THEN value.fields[name]
  ELSE NoOutput

\* ToBoolean
ValueTruthy(value) ==
  CASE value.t \in {"undefined", "null"} -> FALSE
    [] value.t = "string" ->
         IF IsSentence(value) THEN value.s # "" ELSE value.chars # <<>>
    [] value.t = "number" -> value.chars # <<"0">>
    [] OTHER -> TRUE

\* the order in which JSON.stringify writes the fields of an object
FieldOrder == <<"output", "text", "content", "response", "message", "data">>

\* JSON.stringify: a field whose value is undefined is left out
RECURSIVE JsonStringify(_)
RECURSIVE JsonMembers(_, _, _)
JsonMembers(value, k, first) ==
  IF k > Len(FieldOrder) THEN <<>>
  ELSE LET name == FieldOrder[k] IN
       IF name \in DOMAIN value.fields /\ value.fields[name].t # "undefined"
       THEN (IF first THEN <<>> ELSE <<",">>)
            \o <<Q, name, Q, ":">> \o JsonStringify(value.fields[name])
            \o JsonMembers(value, k + 1, FALSE)
       ELSE JsonMembers(value, k + 1, first)
JsonStringify(value) ==
  CASE value.t = "string" -> JsonString(value.chars)
    [] value.t = "number" -> value.chars
    [] value.t = "object" -> <<"{">> \o JsonMembers(value, 1, TRUE) \o <<"}">>
    [] OTHER -> <<"n", "u", "l", "l">>

\* JSON.parse of the texts used here: null, a number, a string without
\* escapes, {} and an object of one field; anything else is a SyntaxError
Digits == {"0", "1", "2", "3", "4", "5", "6", "7", "8", "9"}
NotJson == [ok |-> FALSE, value |-> NoOutput]
Parsed(value) == [ok |-> TRUE, value |-> value]

RECURSIVE NextQuote(_, _)
NextQuote(chars, i) ==
  IF i >= Len(chars) THEN 0
  ELSE IF chars[i + 1] = Q THEN i + 1
  ELSE NextQuote(chars, i + 1)

RECURSIVE JsonParse(_)
JsonParse(chars) ==
  LET n == Len(chars) IN
  IF chars = <<"n", "u", "l", "l">> THEN Parsed(NullOutput)
  ELSE IF n > 0 /\ (\A k \in 1..n : chars[k] \in Digits)
          /\ (n = 1 \/ chars[1] # "0")
  THEN Parsed([t |-> "number", chars |-> chars])
  ELSE IF n >= 2 /\ chars[1] = Q /\ chars[n] = Q
          /\ (\A k \in 2..(n - 1) : chars[k] \notin {Q, BS, NL})
  THEN Parsed(StringOutput(SubSeq(chars, 2, n - 1)))
  ELSE IF chars = <<"{", "}">> THEN Parsed(EmptyObject)
  ELSE IF n >= 6 /\ chars[1] = "{" /\ chars[n] = "}" /\ chars[2] = Q
  THEN LET j == NextQuote(chars, 2) IN
       IF j = 0 \/ j + 2 > n - 1 \/ chars[j + 1] # ":"
          \/ (\E k \in 3..(j - 1) : chars[k] \in {BS, NL})
       THEN NotJson
       ELSE LET inner == JsonParse(SubSeq(chars, j + 2, n - 1)) IN
            IF inner.ok
            THEN Parsed(OneField(Join(SubSeq(chars, 3, j - 1)), inner.value))
            ELSE NotJson
  ELSE NotJson

\* const defaultText
DefaultText == Str("The adventure continues...")

\* try { parsed = JSON.parse(value); return parsed.output || value }
\* catch { return value }: a SyntaxError and the TypeError of null.output
\* are caught
ParsedOutputOr(value) ==
  IF IsSentence(value) THEN value
  ELSE LET parsed == JsonParse(value.chars) IN
       IF ~parsed.ok \/ parsed.value.t = "null" THEN value
       ELSE IF ValueTruthy(Field(parsed.value, "output"))
            THEN Field(parsed.value, "output")
            ELSE value

extractText(textResponse) ==
  IF ~ValueTruthy(textResponse) THEN DefaultText
  ELSE IF textResponse.t = "string" THEN ParsedOutputOr(textResponse)
  ELSE IF textResponse.t = "object"
  THEN LET data == Field(textResponse, "data") IN
       IF ValueTruthy(data)
       THEN IF data.t = "string" THEN ParsedOutputOr(data)
            ELSE IF data.t = "object" /\ ValueTruthy(Field(data, "output"))
            THEN Field(data, "output")
            ELSE StringOutput(JsonStringify(data))
       ELSE IF ValueTruthy(Field(textResponse, "output"))
       THEN Field(textResponse, "output")
       ELSE IF ValueTruthy(Field(textResponse, "text"))
       THEN Field(textResponse, "text")
       ELSE DefaultText
  ELSE DefaultText

\* what extractText may be given
Hi == <<"h", "i">>
JsonValues ==
  {NullOutput, NumberOutput, StringOutput(Hi), EmptyObject}
  \cup {OneField(name, value) :
          name \in {"output", "text"},
          value \in {NullOutput, NumberOutput, StringOutput(Hi),
                     StringOutput(<<>>), EmptyObject}}
TextStrings ==
  {StringOutput(JsonStringify(value)) : value \in JsonValues}
  \cup {StringOutput(Hi), StringOutput(<<>>), StringOutput(<<"{">>)}
TextLeaves == {NoOutput, NullOutput, NumberOutput} \cup TextStrings
DataValues ==
  TextLeaves \cup {EmptyObject}
  \cup {OneField(name, value) :
          name \in {"output", "text"}, value \in TextLeaves \cup {EmptyObject}}
TextInputs ==
  TextLeaves \cup {EmptyObject}
  \cup {OneField(name, value) :
          name \in {"data", "output", "text"}, value \in DataValues}

\* extractText(textResponse)
ExtractText(textResponse) ==
  /\ normalized = NoCall
  /\ normalized' = [fn |-> "extractText", input |-> textResponse,
                    result |-> extractText(textResponse)]
  /\ UNCHANGED <<clock, falKey, stub, gameSessions, engines, reqs, response>>

(***************************************************************************)
(* The text of a scene in the copy variant: generateStoryText turns the    *)
(* provider result into a text, makeChoice stores it in the scene, the     *)
(* handler answers with extractText of it, and the next makeChoice reads   *)
(* it as its context.                                                      *)
(***************************************************************************)
CopyTextFailed ==
  Str("Failed to generate story text. The journey continues...")
CopySceneFallback ==
  Str("The adventure continues as you make your choice. What will you do next?")

\* let storyText = ""; if (result && result.data) { ... }
CopyStoryText(result) ==
  LET data == Field(result, "data") IN
  IF ~ValueTruthy(data) THEN StringOutput(<<>>)
  ELSE IF data.t = "string" THEN data
  ELSE IF data.t = "object"
  THEN IF ValueTruthy(Field(data, "text")) THEN Field(data, "text")
       ELSE IF ValueTruthy(Field(data, "content")) THEN Field(data, "content")
       ELSE IF ValueTruthy(Field(data, "response")) THEN Field(data, "response")
       ELSE IF ValueTruthy(Field(data, "message")) THEN Field(data, "message")
       ELSE StringOutput(JsonStringify(data))
  ELSE StringOutput(data.chars)

\* generateStoryText of the copy variant: a rejection, and the TypeError
\* of result.data on a result that is null or undefined, go to its catch
CopyGenerateStoryText(outcome) ==
  IF outcome.ok /\ outcome.result.t \notin {"undefined", "null"}
  THEN [success |-> TRUE, text |-> CopyStoryText(outcome.result)]
  ELSE [success |-> FALSE, text |-> CopyTextFailed]

\* text: textResult.success ? textResult.text : "The adventure continues.."
CopySceneText(textResult) ==
  IF textResult.success THEN textResult.text ELSE CopySceneFallback

\* what the text call of the copy variant may settle with
CopyTextOutcomes ==
  {Rejected(OtherError, NoOutput), Resolved(NoOutput), Resolved(EmptyObject)}
  \cup {Resolved(OneField("data", data)) : data \in DataValues}

\* a scene is made from the outcome of the text call and answered, and the
\* next makeChoice on the engine reads its context
CopyMakeChoice(outcome) ==
  /\ normalized = NoCall
  /\ LET sceneText == CopySceneText(CopyGenerateStoryText(outcome))
     IN  normalized' =
           [fn |-> "makeChoice", input |-> outcome,
            result |-> [text |-> extractText(sceneText),
                        currentContext |-> sceneText]]
  /\ UNCHANGED <<clock, falKey, stub, gameSessions, engines, reqs, response>>

InitExtract == Init /\ falKey /\ stub = "choices"

\* the inputs of the one call of a behaviour
ToExtract == IF normalized = NoCall THEN ExtractInputs ELSE {}
ToNormalize == IF normalized = NoCall THEN Outputs \cup FencedOutputs ELSE {}
ToExtractText == IF normalized = NoCall THEN TextInputs ELSE {}
ToMakeScene == IF normalized = NoCall THEN CopyTextOutcomes ELSE {}

NextExtract ==
  \/ \E choicesResponse \in ToExtract : ExtractChoices(choicesResponse)
  \/ \E output \in ToNormalize : NormalizeOutput(output)
  \/ \E textResponse \in ToExtractText : ExtractText(textResponse)
  \/ \E outcome \in ToMakeScene : CopyMakeChoice(outcome)

SpecExtract == InitExtract /\ [][NextExtract]_vars

(***************************************************************************)
(* The claims.                                                             *)
(***************************************************************************)
Answered200 == response.req # 0 /\ response.status = 200
Engines == 1..Len(engines)
Capabilities == {"text", "image", "choices", "speech"}

\* makeChoice is running for request r: between its push and its return
InMakeChoice(r) ==
  /\ r \in InFlight
  /\ reqs[r].kind = "choice"
  /\ reqs[r].pc \in {"text", "image", "choices"}

IsPrefix(s, t) == Len(s) <= Len(t) /\ SubSeq(t, 1, Len(s)) = s

\* the number of entries of a history that hold the scene made by request g
Copies(history, g) ==
  Cardinality({k \in 1..Len(history) : history[k].gen = g})

\* C1: every 200 response of start and choice carries exactly 3 choices
C1_ChoicesLengthThree ==
  Answered200 => Len(response.choices) = 3

\* C2: the text of every 200 response of start and choice is a non-empty
\* string
C2_TextNonEmptyString ==
  Answered200 => response.text.t = "string" /\ response.text.s # ""

\* C3: two distinct start requests never hold the same sessionId, and a
\* start that has not registered its engine yet never holds an id that is
\* already in the registry
C3_DistinctSessionIds ==
  \A r1 \in InFlight :
    reqs[r1].kind = "start" =>
      /\ \A r2 \in InFlight \ {r1} :
           reqs[r2].kind = "start" => reqs[r2].sessionId # reqs[r1].sessionId
      /\ reqs[r1].pc \in {"text", "image", "choices"} =>
           ~Has(gameSessions, reqs[r1].sessionId)

\* C4: makeChoice takes no lock: when two choice requests run makeChoice on
\* the same engine and both found the same current scene, each has pushed
\* its own copy of that scene, so history holds it at least twice
C4_BothPushSameScene ==
  \A r1 \in InFlight : \A r2 \in InFlight \ {r1} :
    ( /\ InMakeChoice(r1) /\ InMakeChoice(r2)
      /\ reqs[r1].game = reqs[r2].game
      /\ reqs[r1].before.currentScene.gen = reqs[r2].before.currentScene.gen )
    => Copies(engines[reqs[r1].game].history,
              reqs[r1].before.currentScene.gen) >= 2

\* C4, the corrupted state: two choice requests of one session have both
\* returned from makeChoice; both had pushed the same scene, the current
\* scene is the one of r2, and the scene r1 generated is neither current
\* nor anywhere in history
C4_LostUpdate ==
  \E r1 \in InFlight : \E r2 \in InFlight \ {r1} :
    LET engine == engines[reqs[r1].game] IN
    /\ reqs[r1].kind = "choice" /\ reqs[r2].kind = "choice"
    /\ reqs[r1].pc = "speech" /\ reqs[r2].pc = "speech"
    /\ reqs[r1].sessionId = reqs[r2].sessionId
    /\ reqs[r1].game = reqs[r2].game
    /\ reqs[r1].before.currentScene.gen = reqs[r2].before.currentScene.gen
    /\ Copies(engine.history, reqs[r1].before.currentScene.gen) = 2
    /\ engine.currentScene.gen = r2
    /\ Copies(engine.history, r1) = 0

\* C5: when no makeChoice runs on an engine, its history is as long as the
\* number of makeChoice calls on it that returned a scene
C5_HistoryLength ==
  \A e \in Engines :
    (\A r \in InFlight : ~(InMakeChoice(r) /\ reqs[r].game = e))
    => Len(engines[e].history) = engines[e].returned

\* C6: history is append-only: in every step the history of every engine
\* is a prefix of its history after the step
C6_AppendOnly ==
  [][\A e \in Engines : IsPrefix(engines[e].history, engines'[e].history)]_vars

\* C6, its case: an engine whose current scene was replaced twice, with the
\* two scenes it replaced in its history
C6_Witness ==
  \E e \in Engines :
    /\ Len(engines[e].history) >= 2
    /\ engines[e].returned >= 2
    /\ engines[e].history[1].gen # engines[e].history[2].gen

\* C7: when makeChoice ends for a request that had the engine for itself,
\* history is the history it found plus the scene it found, and the current
\* scene is the scene this request generated
C7_SingleChoose ==
  [][\A r \in InFlight :
       ( /\ InMakeChoice(r)
         /\ ~reqs[r].shared
         /\ reqs'[r].pc \in {"speech", "done"} )
       => LET e == reqs[r].game
              before == reqs[r].before
          IN  /\ engines'[e].history =
                   Append(before.history, before.currentScene)
              /\ engines'[e].currentScene.gen = r]_vars

\* C8: for an index that is negative, not below choices.length, or NaN, the
\* action given to text generation is one of the three default choices,
\* for a number the one at index mod 3
C8_ModuloDefault ==
  \A r \in InFlight :
    reqs[r].kind = "choice" =>
      LET index == ParseInt(reqs[r].choiceIndex)
          length == Len(reqs[r].before.currentScene.choices)
      IN  (index.nan \/ index.n < 0 \/ index.n >= length)
          => /\ \E k \in 1..3 : reqs[r].selectedChoice = DEFAULT_CHOICES[k]
             /\ ~index.nan =>
                  reqs[r].selectedChoice = DEFAULT_CHOICES[(index.n % 3) + 1]

\* the request received in this step, and the sessionId it bears
Received == Len(reqs') = Len(reqs) + 1
ReceivedSessionId ==
  IF reqs'[Len(reqs')].pc = "done"
  THEN response'.sessionId
  ELSE reqs'[Len(reqs')].sessionId

\* C9: a choice request whose sessionId is not in the registry is answered
\* 404 {error: "Game session not found"} at once, with no provider call, and
\* the registry and every engine stay as they were
C9_UnknownSession ==
  [][( /\ Received
       /\ reqs'[Len(reqs')].kind = "choice"
       /\ ~Has(gameSessions, ReceivedSessionId) )
     => /\ reqs'[Len(reqs')].pc = "done"
        /\ response'.req = Len(reqs')
        /\ response'.status = 404
        /\ response'.error = SessionNotFound
        /\ response'.calls = <<>>
        /\ gameSessions' = gameSessions
        /\ engines' = engines]_vars

\* C9, its case: a 404 was answered while a session is registered
C9_Witness ==
  /\ response.status = 404
  /\ response.kind = "choice"
  /\ DOMAIN gameSessions # {}
  /\ ~Has(gameSessions, response.sessionId)

\* C10: a request whose provider calls were rejected or answered well-formed
\* is answered 200; the field of each rejected step holds its fallback and
\* the field of each other step holds what that step generated
C10_RejectionsDegradeOneField ==
  (response.req # 0 /\ response.calls # <<>> /\ response.malformed = {})
  => /\ response.status = 200
     /\ IF "text" \in response.rejected
        THEN response.text = Str(PlaceholderText)
        ELSE response.text \in {Str(TextOf(response.req)), Str(LongText)}
     /\ response.imageUrl =
          IF "image" \in response.rejected
          THEN Null
          ELSE Str("image " \o ToString(response.req))
     /\ response.audioUrl =
          IF "speech" \in response.rejected
          THEN Null
          ELSE Str("audio " \o ToString(response.req))
     /\ response.choices =
          IF "choices" \in response.rejected
          THEN DEFAULT_CHOICES
          ELSE <<Str("A"), Str("B"), Str("C")>>

\* C10, its case: a start whose four provider calls were all rejected
C10_Witness ==
  /\ response.kind = "start"
  /\ response.status = 200
  /\ response.rejected = Capabilities
  /\ response.text = Str(PlaceholderText)
  /\ Len(response.choices) = 3
  /\ response.imageUrl = Null
  /\ response.audioUrl = Null

\* C11: a request whose provider calls all resolved, at least one of them
\* with a malformed result, is answered 200
C11_MalformedRecovered ==
  (response.req # 0 /\ response.malformed # {} /\ response.rejected = {})
  => response.status = 200

\* C12: a sessionId a start returned is in the registry when the response is
\* written; no step removes an id from the registry; a choice request
\* bearing a registered id is never answered 404
C12_SessionStaysRegistered ==
  [][ /\ DOMAIN gameSessions \subseteq DOMAIN gameSessions'
      /\ (response'.kind = "start" /\ response'.status = 200)
         => Has(gameSessions', response'.sessionId)
      /\ (Received /\ reqs'[Len(reqs')].kind = "choice"
          /\ Has(gameSessions, ReceivedSessionId))
         => response'.status # 404 ]_vars

\* C12, its case: two sessions are registered and a choice request bearing
\* the id of the first one was received after the second one was registered
C12_Witness ==
  \E r \in InFlight :
    /\ reqs[r].kind = "choice"
    /\ Cardinality(DOMAIN gameSessions) = 2
    /\ \A s \in DOMAIN gameSessions : reqs[r].sessionId <= s
    /\ Has(gameSessions, reqs[r].sessionId)

\* the choice request that acts in this step: the one received, or the one
\* whose awaited call settles
ActingChoice(r) ==
  /\ r \in 1..Len(reqs')
  /\ IF r \in InFlight
     THEN reqs[r].kind = "choice" /\ reqs'[r].pc # reqs[r].pc
     ELSE r = Len(reqs) + 1 /\ reqs'[r].kind = "choice"
ActingSessionId(r) ==
  IF r \in InFlight THEN reqs[r].sessionId ELSE ReceivedSessionId

\* C13: a step of a choice request bearing sessionId s leaves the engine
\* registered under every other id as it was
C13_OtherSessionsUntouched ==
  [][\A r \in 1..Len(reqs') :
       ActingChoice(r) =>
         \A s \in DOMAIN gameSessions \ {ActingSessionId(r)} :
           engines'[gameSessions[s]] = engines[gameSessions[s]]]_vars

\* C13, its case: two sessions are registered on two engines, a choice
\* request of the second one has pushed onto its engine and the engine of
\* the first one is as its start left it
C13_Witness ==
  \E r \in InFlight :
    /\ reqs[r].kind = "choice"
    /\ Cardinality(DOMAIN gameSessions) = 2
    /\ \A s \in DOMAIN gameSessions : s <= reqs[r].sessionId
    /\ engines[reqs[r].game].history # <<>>
    /\ \E s \in DOMAIN gameSessions :
         /\ s # reqs[r].sessionId
         /\ gameSessions[s] # reqs[r].game
         /\ engines[gameSessions[s]].history = <<>>
         /\ engines[gameSessions[s]].currentScene.gen # 0

\* the errors a failing provider call raises
ProviderErrors == {AuthError, OtherError}

\* what the rest of the request reads of the settled call a request awaits,
\* had the call rejected with this error: the story text and whether the
\* substring of makeChoice throws; the image URL and whether reading it
\* throws; the choices; the audio URL
ReadOfRejection(rq, error) ==
  CASE rq.pc = "text" ->
         LET textResult == generateStoryText(Rejected(error, NoTextResult))
         IN  <<StoryTextOf(textResult),
               rq.kind = "choice" /\ SubstringThrows(textResult),
               NeedsChoicesCall(StoryTextOf(textResult)),
               NeedsSpeechCall(StoryTextOf(textResult))>>
    [] rq.pc = "image" ->
         LET image == generateStoryImage(
                        Rejected(error, ImageResult(FALSE, NoImageData)))
         IN  <<ImageUrlOf(image), ImageUrlThrows(image)>>
    [] rq.pc = "choices" ->
         <<extractChoices(ArrayResponse(
             generateChoices(Rejected(error, OtherResponse("undefined")))))>>
    [] OTHER ->
         <<generateSpeech(Rejected(error, NoSpeechResult))>>

\* C14: whatever call a request awaits, what the request reads of it when it
\* rejects is the same for a 401 and for any other error; and the response
\* of a request that met rejections holds nothing but the fallbacks, in the
\* runs that reject with 401 as in the runs that reject otherwise
C14_ErrorKindInvisible ==
  /\ \A r \in InFlight : \A e1 \in ProviderErrors : \A e2 \in ProviderErrors :
       ReadOfRejection(reqs[r], e1) = ReadOfRejection(reqs[r], e2)
  /\ (response.req # 0 /\ response.status = 200) =>
       /\ "text" \in response.rejected => response.text = Str(PlaceholderText)
       /\ "image" \in response.rejected => response.imageUrl = Null
       /\ "speech" \in response.rejected => response.audioUrl = Null
       /\ "choices" \in response.rejected => response.choices = DEFAULT_CHOICES
  /\ (response.req # 0 /\ response.rejected # {}) =>
       response.error \in {"", FailedMessage(response.kind)}

\* C14, its case: a choice request whose text call was rejected with a 401
\* was answered
C14_Witness ==
  /\ stub = "rejects401"
  /\ response.kind = "choice"
  /\ response.status = 200
  /\ "text" \in response.rejected
  /\ response.text = Str(PlaceholderText)

\* C15: every response is a 200 with the scene fields, or the 404 of the
\* choice handler with its fixed body, or a 500 whose body is the fixed
\* message of the handler, whatever was thrown
C15_ResponseShapes ==
  response.req # 0 =>
    \/ /\ response.status = 200
       /\ response.error = ""
       /\ response.text.t # "undefined"
       /\ response.imageUrl.t # "undefined"
       /\ response.audioUrl.t # "undefined"
       /\ response.choices # <<>>
    \/ /\ response.status = 404
       /\ response.kind = "choice"
       /\ response.error = SessionNotFound
       /\ response.choices = <<>> /\ response.text = Undefined
    \/ /\ response.status = 500
       /\ response.error =
            (IF response.kind = "start" THEN StartFailed ELSE ChoiceFailed)
       /\ response.choices = <<>> /\ response.text = Undefined

\* C15, its case: a TypeError thrown after the provider calls of a request
\* was answered 500
C15_Witness ==
  /\ response.status = 500
  /\ Len(response.calls) = 4
  /\ response.malformed # {}

\* C16: a server whose FAL_KEY is not set never accepts a request
C16_NoKeyNoRequests ==
  ~falKey => reqs = <<>>

\* C17: makeChoice on an engine whose currentScene is null ends in a fault
\* that is not the TypeError of a programming error, and pushes nothing
C17_NullSceneFault ==
  \A e \in Engines :
    engines[e].currentScene.gen = 0 =>
      \A i \in 0..2 :
        LET begun == makeChoice(engines[e], Num(i))
        IN  /\ begun.thrown
            /\ begun.error # TypeError
            /\ begun.history = engines[e].history

\* C18: extractChoices returns exactly 3 non-empty strings, whatever it is
\* given
C18_ThreeNonEmptyStrings ==
  normalized.fn = "extractChoices" =>
    /\ Len(normalized.result) = 3
    /\ \A k \in 1..Len(normalized.result) :
         normalized.result[k].t = "string" /\ normalized.result[k].s # ""

\* the entries the regular expression extracts from an output
Extracted(output) == CleanedChoices(MatchQuoted(output.chars))

\* C19: when the extraction from a provider output yields n >= 1 entries,
\* the choices are the entries followed by the first 3 - n defaults if
\* n < 3, and the first 3 entries otherwise, whether extractChoices or
\* generateChoices extracted
C19_PadOrTruncate ==
  ( /\ normalized.fn \in {"extractChoices", "generateChoices"}
    /\ normalized.input.kind = "object"
    /\ normalized.input.output.t = "string"
    /\ Len(Extracted(normalized.input.output)) >= 1 )
  => LET entries == Extracted(normalized.input.output)
         n == Len(entries)
     IN  normalized.result =
           IF n < 3
           THEN entries \o [k \in 1..(3 - n) |-> DEFAULT_CHOICES[k]]
           ELSE [k \in 1..3 |-> entries[k]]

\* C20: a fenced JSON array of 3 distinct strings is normalized to these 3
\* strings, in order, by extractChoices and by the path through
\* generateChoices
C20_FencedRoundTrip ==
  \A t \in Triples :
    ( /\ normalized.fn \in {"extractChoices", "generateChoices"}
      /\ normalized.input.kind = "object"
      /\ normalized.input.output = StringOutput(Fenced(JsonArray(t))) )
    => normalized.result = [k \in 1..3 |-> Str(Join(t[k]))]

\* C21: extractText returns a non-empty string, whatever it is given
C21_TextIsNonEmptyString ==
  normalized.fn = "extractText" =>
    /\ normalized.result.t = "string"
    /\ ValueTruthy(normalized.result)

\* the capabilities a request has called
Issued(calls) == {calls[k] : k \in 1..Len(calls)}

\* C22: within one request the image, choices and speech calls are issued
\* only after the text call has settled, one after the other, and a scene is
\* sent only when every call the request issued has settled
C22_TextFirstResponseLast ==
  /\ \A r \in InFlight :
       /\ reqs[r].calls[1] = "text"
       /\ Issued(reqs[r].calls) \cap {"image", "choices", "speech"} # {}
            => "text" \in reqs[r].settled
       /\ Issued(reqs[r].calls) \ reqs[r].settled = {reqs[r].pc}
  /\ response.req # 0 => Issued(response.calls) \subseteq response.settled
  /\ Answered200 => {"text", "image"} \subseteq Issued(response.calls)

\* a choice is answered with a scene after its four calls
C22_Witness ==
  /\ Answered200 /\ response.kind = "choice"
  /\ response.calls = <<"text", "image", "choices", "speech">>
  /\ response.settled = Capabilities

\* C23: a request calls each capability at most once, at most 4 calls in
\* all, and a call that was rejected is not made again
C23_OneAttemptPerCall ==
  /\ \A r \in InFlight :
       /\ Len(reqs[r].calls) <= 4
       /\ \A j, k \in 1..Len(reqs[r].calls) :
            reqs[r].calls[j] = reqs[r].calls[k] => j = k
       /\ reqs[r].rejected \subseteq reqs[r].settled
  /\ response.req # 0 =>
       /\ Len(response.calls) <= 4
       /\ \A j, k \in 1..Len(response.calls) :
            response.calls[j] = response.calls[k] => j = k

\* a start whose four calls were all rejected is answered after 4 calls
C23_Witness ==
  /\ Answered200 /\ response.kind = "start"
  /\ response.rejected = Capabilities
  /\ Len(response.calls) = 4

\* C24: the prompt of every image call is the action, " - " and the first
\* 100 characters of the text generated for the scene
C24_ImagePromptOfActionAndText ==
  \A r \in InFlight :
    "image" \in Issued(reqs[r].calls) =>
      reqs[r].imagePrompt =
        Str(ToJsString(reqs[r].selectedChoice) \o " - "
            \o Substring(ToJsString(StoryTextOf(reqs[r].textResult)),
                         PromptTextLength))

\* C25: the context a choice passes to text generation is the text the
\* previous response of the session returned
C25_ContextIsShownText ==
  normalized.fn = "makeChoice" =>
    normalized.result.currentContext = normalized.result.text

\* the choices the client was shown for the scene a choice request found
ShownChoices(r) ==
  extractChoices(ArrayResponse(reqs[r].before.currentScene.choices))

\* C26: the action of choose(i), for i within the choices shown, is the
\* string shown at position i, empty or not
C26_ActionIsShownChoice ==
  \A r \in InFlight :
    ( /\ reqs[r].kind = "choice" /\ ~reqs[r].shared
      /\ reqs[r].choiceIndex.t = "number"
      /\ reqs[r].choiceIndex.n \in 0..(Len(ShownChoices(r)) - 1) )
    => reqs[r].selectedChoice = ShownChoices(r)[reqs[r].choiceIndex.n + 1]

\* the engine as the choice request answered in this step found it
EngineBefore ==
  IF response'.req \in 1..Len(reqs)
  THEN reqs[response'.req].before
  ELSE engines[response'.game]

\* C27: a choice answered 500, with no other choice on its engine meanwhile,
\* leaves the engine as the request found it: history and currentScene
C27_FailedChoiceLeavesEngine ==
  [][ ( /\ response'.req # 0
        /\ response'.kind = "choice" /\ response'.status = 500
        /\ response'.game # 0
        /\ response'.req \in 1..Len(reqs) => ~reqs[response'.req].shared )
      => engines'[response'.game] = EngineBefore ]_vars

\* the engines the registry holds
Registered == {gameSessions[s] : s \in DOMAIN gameSessions}

\* C28: every engine in the registry has a current scene, and every
\* makeChoice in progress found one
C28_RegisteredEnginesStarted ==
  /\ \A game \in Registered : engines[game].currentScene.gen # 0
  /\ \A r \in InFlight :
       reqs[r].kind = "choice" => reqs[r].before.currentScene.gen # 0

\* a choice runs on a registered engine while the engine of a start in
\* progress has no scene and is not registered
C28_Witness ==
  /\ \E r \in InFlight : reqs[r].kind = "choice"
  /\ \E r \in InFlight :
       /\ reqs[r].kind = "start"
       /\ engines[reqs[r].game].currentScene.gen = 0
       /\ reqs[r].game \notin Registered

\* C29: a start answered 500 has registered nothing: the registry holds
\* no entry for its session id or for its engine
C29_FailedStartRegistersNothing ==
  (response.req # 0 /\ response.kind = "start" /\ response.status = 500)
  => /\ response.game \notin Registered
     /\ \A s \in DOMAIN gameSessions :
          s = response.sessionId =>
            \E r \in 1..(response.req - 1) : reqs[r].kind = "start"

\* request r has arrived / has been answered
Arrived(r) == r \in 1..Len(reqs)
Responded(r) == Arrived(r) /\ reqs[r].pc = "done"

\* C30: when every provider call settles, every request that arrives is
\* answered, and answered once: no request stays arrived and unanswered
\* for ever, its handler ends in the step that writes its response, and
\* writes none afterwards. A request that arrived stays arrived and, by the
\* second conjunct, one that was answered stays answered, so "again and
\* again not pending" is "answered some time after it arrives".
C30_ExactlyOneResponse ==
  /\ \A r \in 1..MaxReqs : []<>(Arrived(r) => Responded(r))
  /\ [][ \A r \in 1..MaxReqs :
           /\ Responded(r) => Responded(r)' /\ response'.req # r
           /\ (~Responded(r) /\ Responded(r)') <=> response'.req = r ]_vars

\* every request of a run has been answered, the last response being a
\* scene for a request that a later request overtook
C30_Witness ==
  /\ Len(reqs) = MaxReqs
  /\ \A r \in 1..MaxReqs : Responded(r)
  /\ response.req # 0 /\ response.req < MaxReqs
  /\ response.status = 200

====
